---- MODULE Spec2Model ----
(***************************************************************************)
(* The search agent of neatflowcv/search as a state machine.               *)
(*                                                                         *)
(* The graph built by build_search_graph runs one node at a time over one  *)
(* SearchState.  `state' holds the channels SearchState declares, `node'   *)
(* the node that runs next, `request' the message list of the latest       *)
(* completion call, `response_text' the text it returned, `tool_calls' the *)
(* calls last parsed from a text, `today' the date the clock gives,        *)
(* `exception' the call that raised when a run was aborted, `transport'    *)
(* the outcome of the latest batch of SearXNG requests and `sent' the      *)
(* query of each of them, in the order they were issued.  searchRuns,      *)
(* respondRuns and verifyRuns count the executions of those nodes and      *)
(* failedChecks the verifications that did not pass.                       *)
(* Texts are sequences of lexical tokens; the regular expressions and      *)
(* json.loads of the source work on those tokens.                          *)
(***************************************************************************)
EXTENDS Integers, Sequences, FiniteSets, TLC

VARIABLES state, node, response_text, transport, searchRuns, respondRuns,
          verifyRuns, failedChecks, request, tool_calls, today, exception,
          sent

vars == <<state, node, response_text, transport, searchRuns, respondRuns,
          verifyRuns, failedChecks, request, tool_calls, today, exception,
          sent>>

(***************************************************************************)
(* Bounds of the model.                                                    *)
(***************************************************************************)
MaxMaxIterations == 3
MaxCount == 3
MaxElems == 2
MaxParams == 2
MaxCalls == 2
MaxExtra == 2

(***************************************************************************)
(* Constants of the program.                                               *)
(***************************************************************************)
QueryCap == 10
MaxResultsPerQuery == 5
ContentLimit == 300
MaxStrDigits == 4300

None == [t |-> "null", v |-> "None"]

\* A Python str held as its token sequence.
Text(toks) == [t |-> "text", v |-> toks]

Min(a, b) == IF a < b THEN a ELSE b

(***************************************************************************)
(* Tokens.  k is the lexical class: "mark" a tool-call marker, "id" a run  *)
(* of word characters, "str" a double-quoted literal (s is its content),   *)
(* "num" a number literal, "int" an integer literal given by its number of *)
(* digits, "p" one punctuation character, "ws" white space, "txt" any      *)
(* other free text.                                                        *)
(***************************************************************************)
Tok(k, s) == [k |-> k, s |-> s]
Id(s) == Tok("id", s)
Str(s) == Tok("str", s)
Num(s) == Tok("num", s)
IntLit(digits) == Tok("int", digits)
P(s) == Tok("p", s)
Ws == Tok("ws", " ")
Txt(s) == Tok("txt", s)

TOOL_CALL_START == Tok("mark", "<|tool_call_start|>")
TOOL_CALL_END == Tok("mark", "<|tool_call_end|>")

(***************************************************************************)
(* Python values decoded from text, tagged with their type.                *)
(***************************************************************************)
JStr(s) == [t |-> "str", v |-> s]
JNum(s) == [t |-> "num", v |-> s]
JInt(digits) == [t |-> "int", v |-> digits]
JBool(b) == [t |-> "bool", v |-> b]
JList(q) == [t |-> "list", v |-> q]
JDict(f) == [t |-> "dict", v |-> f]
EmptyDict == JDict(<<>>)

\* Python truthiness of a decoded value.
Truthy(x) ==
    CASE x.t = "str" -> x.v # ""
      [] x.t = "num" -> x.v # "0"
      [] x.t = "int" -> TRUE
      [] x.t = "bool" -> x.v
      [] x.t = "list" -> Len(x.v) > 0
      [] x.t = "dict" -> DOMAIN x.v # {}
      [] x.t \in {"raw", "unquoted", "text"} -> Len(x.v) > 0
      [] OTHER -> FALSE

\* d.get(key, default) on a decoded dict.
DictGet(d, key, default) == IF key \in DOMAIN d.v THEN d.v[key] ELSE default

\* str.strip() on a token sequence.
RECURSIVE LStrip(_)
LStrip(toks) ==
    IF Len(toks) > 0 /\ toks[1].k = "ws" THEN LStrip(Tail(toks)) ELSE toks

RECURSIVE RStrip(_)
RStrip(toks) ==
    IF Len(toks) > 0 /\ toks[Len(toks)].k = "ws"
    THEN RStrip(SubSeq(toks, 1, Len(toks) - 1))
    ELSE toks

Strip(toks) == RStrip(LStrip(toks))

SetMin(S) == CHOOSE j \in S : \A k \in S : j <= k
SetMax(S) == CHOOSE j \in S : \A k \in S : j >= k

\* Smallest index >= i at which toks holds tok, 0 when there is none.
FindTok(toks, i, tok) ==
    LET S == {j \in i..Len(toks) : toks[j] = tok}
    IN  IF S = {} THEN 0 ELSE SetMin(S)

\* Largest index at which toks holds tok, 0 when there is none.
FindLastTok(toks, tok) ==
    LET S == {j \in 1..Len(toks) : toks[j] = tok}
    IN  IF S = {} THEN 0 ELSE SetMax(S)

(***************************************************************************)
(* json.loads on a token sequence: a recursive-descent decoder.  The       *)
(* result is [ok, v, err]; ok = FALSE with err = FALSE stands for          *)
(* json.JSONDecodeError, err = TRUE for the ValueError that int() raises   *)
(* on a literal of more than MaxStrDigits digits.                          *)
(***************************************************************************)
JFail == [ok |-> FALSE, v |-> None, next |-> 0, err |-> FALSE]
JRaise == [ok |-> FALSE, v |-> None, next |-> 0, err |-> TRUE]
JOk(v, next) == [ok |-> TRUE, v |-> v, next |-> next, err |-> FALSE]

RECURSIVE ParseValue(_, _)
RECURSIVE ParseElems(_, _, _)
RECURSIVE ParseMembers(_, _, _)

ParseValue(toks, i) ==
    IF i > Len(toks) THEN JFail
    ELSE LET tk == toks[i] IN
         CASE tk.k = "str" -> JOk(JStr(tk.s), i + 1)
           [] tk.k = "num" -> JOk(JNum(tk.s), i + 1)
           [] tk.k = "int" ->
                IF tk.s > MaxStrDigits THEN JRaise
                ELSE JOk(JInt(tk.s), i + 1)
           [] tk = Id("true") -> JOk(JBool(TRUE), i + 1)
           [] tk = Id("false") -> JOk(JBool(FALSE), i + 1)
           [] tk = Id("null") -> JOk(None, i + 1)
           [] tk = P("[") ->
                IF i + 1 <= Len(toks) /\ toks[i + 1] = P("]")
                THEN JOk(JList(<<>>), i + 2)
                ELSE ParseElems(toks, i + 1, <<>>)
           [] tk = P("{") ->
                IF i + 1 <= Len(toks) /\ toks[i + 1] = P("}")
                THEN JOk(EmptyDict, i + 2)
                ELSE ParseMembers(toks, i + 1, <<>>)
           [] OTHER -> JFail

ParseElems(toks, i, acc) ==
    LET r == ParseValue(toks, i) IN
    IF r.err THEN JRaise
    ELSE IF ~r.ok \/ r.next > Len(toks) THEN JFail
    ELSE IF toks[r.next] = P(",")
         THEN ParseElems(toks, r.next + 1, Append(acc, r.v))
    ELSE IF toks[r.next] = P("]")
         THEN JOk(JList(Append(acc, r.v)), r.next + 1)
    ELSE JFail

ParseMembers(toks, i, acc) ==
    IF i + 1 > Len(toks) \/ toks[i].k # "str" \/ toks[i + 1] # P(":")
    THEN JFail
    ELSE LET r == ParseValue(toks, i + 2) IN
         IF r.err THEN JRaise
         ELSE IF ~r.ok \/ r.next > Len(toks) THEN JFail
         ELSE IF toks[r.next] = P(",")
              THEN ParseMembers(toks, r.next + 1, (toks[i].s :> r.v) @@ acc)
         ELSE IF toks[r.next] = P("}")
              THEN JOk(JDict((toks[i].s :> r.v) @@ acc), r.next + 1)
         ELSE JFail

json_loads(toks) ==
    LET body == SelectSeq(toks, LAMBDA tk : tk.k # "ws")
        r == ParseValue(body, 1)
    IN  IF r.err THEN [ok |-> FALSE, v |-> None, err |-> TRUE]
        ELSE IF r.ok /\ r.next = Len(body) + 1
             THEN [ok |-> TRUE, v |-> r.v, err |-> FALSE]
        ELSE [ok |-> FALSE, v |-> None, err |-> FALSE]

(***************************************************************************)
(* llm/parser.py: tool calls recovered from the completion text.           *)
(***************************************************************************)
ToolCall(name, arguments) == [name |-> name, arguments |-> arguments]

\* tc["name"] == s
NameIs(tc, s) == tc.name = JStr(s)

IsWord(tk) == tk.k \in {"id", "num"}

\* Blocks taking a start marker that is never closed as a block running to
\* the end of the text.
RECURSIVE Blocks_open_ended(_, _, _)
Blocks_open_ended(toks, i, acc) ==
    LET s == FindTok(toks, i, TOOL_CALL_START)
        e == IF s = 0 THEN 0 ELSE FindTok(toks, s + 1, TOOL_CALL_END)
    IN  IF s = 0 THEN acc
        ELSE IF e = 0 THEN Append(acc, SubSeq(toks, s + 1, Len(toks)))
        ELSE Blocks_open_ended(toks, e + 1,
                               Append(acc, SubSeq(toks, s + 1, e - 1)))

\* re.findall(START (.*?) END, response, DOTALL): the delimited blocks.
RECURSIVE Blocks(_, _, _)
Blocks(toks, i, acc) ==
    LET s == FindTok(toks, i, TOOL_CALL_START)
        e == IF s = 0 THEN 0 ELSE FindTok(toks, s + 1, TOOL_CALL_END)
    IN  IF s = 0 \/ e = 0 THEN acc
        ELSE Blocks(toks, e + 1, Append(acc, SubSeq(toks, s + 1, e - 1)))

\* One decoded JSON element as a tool call, <<>> when it is not one.
JsonItemCalls(item) ==
    IF item.t = "dict" /\ "name" \in DOMAIN item.v
    THEN <<ToolCall(item.v["name"], DictGet(item, "arguments", EmptyDict))>>
    ELSE <<>>

RECURSIVE JsonItemsCalls(_)
JsonItemsCalls(items) ==
    IF Len(items) = 0 THEN <<>>
    ELSE JsonItemCalls(Head(items)) \o JsonItemsCalls(Tail(items))

\* The calls of one JSON block; err when json.loads raises something other
\* than JSONDecodeError, which the except clause lets through.
_parse_json_tool_calls(content) ==
    LET r == json_loads(content)
    IN  IF r.err THEN [err |-> TRUE, v |-> <<>>]
        ELSE IF ~r.ok THEN [err |-> FALSE, v |-> <<>>]
        ELSE IF r.v.t = "dict"
             THEN [err |-> FALSE, v |-> JsonItemsCalls(<<r.v>>)]
        ELSE IF r.v.t = "list"
             THEN [err |-> FALSE, v |-> JsonItemsCalls(r.v.v)]
        ELSE [err |-> FALSE, v |-> <<>>]

\* re.findall(r"(\w+)\((.*?)\)", content, DOTALL): name and parameter text.
RECURSIVE FuncMatches(_, _, _)
FuncMatches(toks, i, acc) ==
    LET S == {j \in i..(Len(toks) - 1) :
                 /\ IsWord(toks[j])
                 /\ toks[j + 1] = P("(")
                 /\ FindTok(toks, j + 2, P(")")) # 0}
    IN  IF S = {} THEN acc
        ELSE LET j == SetMin(S)
                 c == FindTok(toks, j + 2, P(")"))
             IN  FuncMatches(toks, c + 1,
                     Append(acc, [name |-> toks[j].s,
                                  params |-> SubSeq(toks, j + 2, c - 1)]))

\* The lookahead ,\s*\w+= holds at position p.
RECURSIVE SkipWs(_, _)
SkipWs(toks, p) ==
    IF p <= Len(toks) /\ toks[p].k = "ws" THEN SkipWs(toks, p + 1) ELSE p

ParamBoundary(toks, p) ==
    /\ p <= Len(toks)
    /\ toks[p] = P(",")
    /\ LET q == SkipWs(toks, p + 1)
       IN  q + 1 <= Len(toks) /\ IsWord(toks[q]) /\ toks[q + 1] = P("=")

\* One parameter value: JSON, else the unquoted string, else the raw token;
\* err when json.loads raises something other than JSONDecodeError.
ParamValue(raw) ==
    LET pv == Strip(raw)
        r == json_loads(pv)
    IN  IF r.err THEN [err |-> TRUE, v |-> None]
        ELSE IF r.ok THEN [err |-> FALSE, v |-> r.v]
        ELSE IF Len(pv) > 0 /\ pv[1].k = "str" /\ pv[Len(pv)].k = "str"
             THEN [err |-> FALSE, v |-> [t |-> "unquoted", v |-> pv]]
        ELSE [err |-> FALSE, v |-> [t |-> "raw", v |-> pv]]

\* re.findall(r"(\w+)=(.+?)(?=,\s*\w+=|$)", params_str, DOTALL) folded into
\* the arguments mapping; a repeated key keeps its last value.
RECURSIVE ParamMatches(_, _, _)
ParamMatches(toks, i, acc) ==
    LET S == {j \in i..(Len(toks) - 2) :
                 IsWord(toks[j]) /\ toks[j + 1] = P("=")}
    IN  IF S = {} THEN [err |-> FALSE, v |-> acc]
        ELSE LET j == SetMin(S)
                 E == {e \in (j + 2)..Len(toks) :
                          e = Len(toks) \/ ParamBoundary(toks, e + 1)}
                 e == SetMin(E)
                 value == ParamValue(SubSeq(toks, j + 2, e))
             IN  IF value.err THEN [err |-> TRUE, v |-> acc]
                 ELSE ParamMatches(toks, e + 1, (toks[j].s :> value.v) @@ acc)

RECURSIVE PythonicCalls(_)
PythonicCalls(ms) ==
    IF Len(ms) = 0 THEN [err |-> FALSE, v |-> <<>>]
    ELSE LET m == Head(ms)
             args == IF Len(Strip(m.params)) > 0
                     THEN ParamMatches(m.params, 1, <<>>)
                     ELSE [err |-> FALSE, v |-> <<>>]
             rest == PythonicCalls(Tail(ms))
         IN  IF args.err \/ rest.err THEN [err |-> TRUE, v |-> <<>>]
             ELSE [err |-> FALSE,
                   v |-> <<ToolCall(JStr(m.name), JDict(args.v))>> \o rest.v]

\* The pattern runs over characters, inside string literals too: a literal
\* that spells a call expression is seen as its word and its parentheses.
QuotedCall == "done()"

Characters(tk) ==
    IF tk = Str(QuotedCall)
    THEN <<P("\""), Id("done"), P("("), P(")"), P("\"")>>
    ELSE <<tk>>

RECURSIVE Scanned(_)
Scanned(toks) ==
    IF Len(toks) = 0 THEN <<>>
    ELSE Characters(Head(toks)) \o Scanned(Tail(toks))

_parse_pythonic_tool_calls(content) ==
    PythonicCalls(FuncMatches(Scanned(content), 1, <<>>))

\* BlockCalls applying the call grammar to every block, after the JSON one.
BlockCalls_both(block) ==
    LET match == Strip(block)
        parsed == IF Len(match) > 0 /\ match[1] \in {P("{"), P("[")}
                  THEN _parse_json_tool_calls(match)
                  ELSE [err |-> FALSE, v |-> <<>>]
        pythonic == _parse_pythonic_tool_calls(match)
    IN  IF parsed.err THEN parsed
        ELSE [err |-> pythonic.err, v |-> parsed.v \o pythonic.v]

\* One block: JSON first when it starts with { or [, else the call grammar.
BlockCalls(block) ==
    LET match == Strip(block)
        parsed == IF Len(match) > 0 /\ match[1] \in {P("{"), P("[")}
                  THEN _parse_json_tool_calls(match)
                  ELSE [err |-> FALSE, v |-> <<>>]
    IN  IF parsed.err \/ Len(parsed.v) > 0 THEN parsed
        ELSE _parse_pythonic_tool_calls(match)

RECURSIVE BlocksCalls(_)
BlocksCalls(blocks) ==
    IF Len(blocks) = 0 THEN [err |-> FALSE, v |-> <<>>]
    ELSE LET first == BlockCalls(Head(blocks))
             rest == BlocksCalls(Tail(blocks))
         IN  IF first.err \/ rest.err THEN [err |-> TRUE, v |-> <<>>]
             ELSE [err |-> FALSE, v |-> first.v \o rest.v]

\* The calls parse_tool_calls returns, err when it raises instead.
parse_tool_calls(response) == BlocksCalls(Blocks(response, 1, <<>>))

(***************************************************************************)
(* json.dumps(value, indent=2) on a decoded value.  The members of a dict  *)
(* come out in one fixed order, which need not be the insertion order.     *)
(***************************************************************************)
RECURSIVE json_dumps(_)
RECURSIVE DumpElems(_)
RECURSIVE DumpMembers(_, _)

json_dumps(x) ==
    CASE x.t = "str" -> <<Str(x.v)>>
      [] x.t = "num" -> <<Num(x.v)>>
      [] x.t = "int" -> <<IntLit(x.v)>>
      [] x.t = "bool" -> <<Id(IF x.v THEN "true" ELSE "false")>>
      [] x.t = "null" -> <<Id("null")>>
      [] x.t = "list" ->
           IF Len(x.v) = 0 THEN <<P("["), P("]")>>
           ELSE <<P("["), Ws>> \o DumpElems(x.v) \o <<Ws, P("]")>>
      [] x.t = "dict" ->
           IF DOMAIN x.v = {} THEN <<P("{"), P("}")>>
           ELSE <<P("{"), Ws>> \o DumpMembers(x.v, DOMAIN x.v)
                    \o <<Ws, P("}")>>

DumpElems(q) ==
    IF Len(q) = 1 THEN json_dumps(q[1])
    ELSE json_dumps(q[1]) \o <<P(","), Ws>> \o DumpElems(Tail(q))

DumpMembers(f, keys) ==
    LET k == CHOOSE key \in keys : TRUE
        member == <<Str(k), P(":"), Ws>> \o json_dumps(f[k])
    IN  IF keys = {k} THEN member
        ELSE member \o <<P(","), Ws>> \o DumpMembers(f, keys \ {k})

(***************************************************************************)
(* llm/tools.py                                                            *)
(***************************************************************************)
WebSearchTool ==
    JDict([name |-> JStr("web_search"),
           description |-> JStr("Search the web for information"),
           parameters |->
             JDict([type |-> JStr("object"),
                    properties |->
                      JDict([queries |->
                        JDict([type |-> JStr("array"),
                               items |-> JDict([type |-> JStr("string")]),
                               description |->
                                 JStr("List of search queries (max 10)")])]),
                    required |-> JList(<<JStr("queries")>>)])])

DoneTool ==
    JDict([name |-> JStr("done"),
           description |-> JStr("Signal that research is complete"),
           parameters |-> JDict([type |-> JStr("object"),
                                 properties |-> EmptyDict])])

ReasoningTool ==
    JDict([name |-> JStr("__reasoning_preamble"),
           description |->
             JStr("Express your reasoning before each tool call"),
           parameters |->
             JDict([type |-> JStr("object"),
                    properties |->
                      JDict([thought |->
                        JDict([type |-> JStr("string"),
                               description |->
                                 JStr("Your reasoning for the next step")])]),
                    required |-> JList(<<JStr("thought")>>)])])

\* get_tools_definition listing the reasoning tool whatever the mode.
get_tools_definition_every_mode(mode) ==
    <<ReasoningTool, WebSearchTool, DoneTool>>

get_tools_definition(mode) ==
    IF mode \in {"balanced", "quality"}
    THEN <<ReasoningTool, WebSearchTool, DoneTool>>
    ELSE <<WebSearchTool, DoneTool>>

(***************************************************************************)
(* llm/prompts.py                                                          *)
(***************************************************************************)
TOOL_LIST_START == Tok("mark", "<|tool_list_start|>")
TOOL_LIST_END == Tok("mark", "<|tool_list_end|>")

\* The lines every template opens with: role, date and iteration budget.
PromptHead(role, iteration, max_iterations, date) ==
    <<Txt(role), Txt("Today's date: "), Tok("date", date),
      Txt("You are currently on iteration "), Tok("count", iteration + 1),
      Txt(" of your research process and have "),
      Tok("count", max_iterations), Txt(" total iterations"),
      Txt("When you are finished, you must call the done tool.")>>

\* The first line of <response_protocol>, which every template shares.
ResponseProtocol ==
    <<Txt("- NEVER output normal text to the user. ONLY call tools using "),
      TOOL_CALL_START, Txt(" and "), TOOL_CALL_END, Txt(" tokens.")>>

_get_speed_prompt(tool_desc, iteration, max_iterations, date) ==
    Text(PromptHead("You are an action orchestrator.",
                    iteration, max_iterations, date)
         \o <<Txt("<goal> as quickly as possible </goal>"),
              Txt("<core_principle> </core_principle>"),
              TOOL_LIST_START>>
         \o tool_desc
         \o <<TOOL_LIST_END, Txt("<response_protocol>")>>
         \o ResponseProtocol
         \o <<Txt("- Default to web_search. - Call done."),
              Txt("</response_protocol>")>>)

_get_balanced_prompt(tool_desc, iteration, max_iterations, date) ==
    Text(PromptHead("You are an action orchestrator.",
                    iteration, max_iterations, date)
         \o <<Txt("<goal> call the __reasoning_preamble tool </goal>"),
              Txt("<core_principle> at most 6 tools </core_principle>"),
              TOOL_LIST_START,
              Txt("YOU MUST CALL __reasoning_preamble BEFORE EVERY TOOL CALL")>>
         \o tool_desc
         \o <<TOOL_LIST_END, Txt("<response_protocol>")>>
         \o ResponseProtocol
         \o <<Txt("- Start with __reasoning_preamble. - Call done."),
              Txt("</response_protocol>")>>)

_get_quality_prompt(tool_desc, iteration, max_iterations, date) ==
    Text(PromptHead("You are a deep-research orchestrator.",
                    iteration, max_iterations, date)
         \o <<Txt("<goal> call __reasoning_preamble </goal>"),
              Txt("<core_principle> up to 10 tools </core_principle>"),
              TOOL_LIST_START,
              Txt("YOU MUST CALL __reasoning_preamble BEFORE EVERY TOOL CALL")>>
         \o tool_desc
         \o <<TOOL_LIST_END,
              Txt("<research_strategy> </research_strategy>"),
              Txt("<response_protocol>")>>
         \o ResponseProtocol
         \o <<Txt("- Follow an iterative loop. - Call done."),
              Txt("</response_protocol>")>>)

\* PromptFormatter(mode).format_system_prompt(iteration, max_iterations)
\* when datetime.now() falls on date.
format_system_prompt(mode, iteration, max_iterations, date) ==
    LET tools == get_tools_definition(mode)
        tool_desc == json_dumps(JList(tools))
    IN  IF mode = "speed"
        THEN _get_speed_prompt(tool_desc, iteration, max_iterations, date)
        ELSE IF mode = "balanced"
             THEN _get_balanced_prompt(tool_desc, iteration, max_iterations,
                                       date)
        ELSE _get_quality_prompt(tool_desc, iteration, max_iterations, date)

(***************************************************************************)
(* clients/searxng.py                                                      *)
(***************************************************************************)
\* item.get(field, default) on one entry of the SearXNG JSON payload.
ItemGet(item, field, default) ==
    IF field \in DOMAIN item THEN item[field] ELSE default

\* A text as far as slicing needs it: an identity and a length.
Content(id, len) == [id |-> id, len |-> len]
EmptyContent == Content("", 0)

SearchResult(item) ==
    [title |-> ItemGet(item, "title", ""),
     url |-> ItemGet(item, "url", ""),
     content |-> ItemGet(item, "content", EmptyContent),
     engine |-> ItemGet(item, "engine", ""),
     score |-> ItemGet(item, "score", "None")]

RECURSIVE Results(_)
Results(items) ==
    IF Len(items) = 0 THEN <<>>
    ELSE <<SearchResult(Head(items))>> \o Results(Tail(items))

\* SearchFrom leaving the loop at the first failed request.
RECURSIVE SearchFrom_break(_, _)
SearchFrom_break(outcomes, i) ==
    IF i > Len(outcomes) \/ outcomes[i].err THEN <<>>
    ELSE Results(SubSeq(outcomes[i].items, 1,
                        Min(Len(outcomes[i].items), MaxResultsPerQuery)))
         \o SearchFrom_break(outcomes, i + 1)

\* SearXNGClient.search: the first QueryCap queries are requested in order;
\* outcomes[i] is what the transport did with the i-th of them.  A query
\* whose request raises httpx.HTTPError contributes nothing.
RECURSIVE SearchFrom(_, _)
SearchFrom(outcomes, i) ==
    IF i > Len(outcomes) THEN <<>>
    ELSE (IF outcomes[i].err THEN <<>>
          ELSE Results(SubSeq(outcomes[i].items, 1,
                              Min(Len(outcomes[i].items), MaxResultsPerQuery))))
         \o SearchFrom(outcomes, i + 1)

search(outcomes) == SearchFrom(outcomes, 1)

\* Requests without the cap on the number of queries.
Requests_uncapped(queries) == Len(queries)

\* Number of requests one call of search issues.
Requests(queries) == Min(Len(queries), QueryCap)

\* SearXNGClient.format_results_for_llm
FormatEntry(i, r) ==
    [k |-> "result",
     s |-> [index |-> i, title |-> r.title, url |-> r.url,
            content |-> Content(r.content.id, Min(r.content.len, ContentLimit)),
            ellipsis |-> r.content.len > ContentLimit]]

format_results_for_llm(results) ==
    IF Len(results) = 0 THEN Text(<<Txt("No search results found.")>>)
    ELSE Text([i \in 1..Len(results) |-> FormatEntry(i, results[i])])

(***************************************************************************)
(* graph/state.py and the StateGraph built over it.                        *)
(***************************************************************************)
\* The channels SearchState declares.
Channels ==
    {"query", "messages", "search_results", "iteration", "max_iterations",
     "mode", "reasoning", "response", "is_complete", "pending_tool_calls"}

Modes == {"speed", "balanced", "quality"}

\* ApplyUpdate with messages declared without its reducer.
ApplyUpdate_overwrite(st, upd) ==
    [c \in DOMAIN st |-> IF c \in DOMAIN upd THEN upd[c] ELSE st[c]]

\* A node's update merged into the state: messages is annotated with the
\* add reducer, every other declared channel keeps the last value written,
\* and a key SearchState does not declare is not a channel of the graph.
ApplyUpdate(st, upd) ==
    [c \in Channels |->
        IF c \in DOMAIN upd
        THEN IF c = "messages" THEN st[c] \o upd[c] ELSE upd[c]
        ELSE st[c]]

\* StateGet answering None for a key that is not a declared channel.
StateGet_undeclared(st, key) ==
    IF key \in DOMAIN st \cap Channels THEN st[key] ELSE None

\* StateGet answering True for a missing key: state.get(key, True).
StateGet_default_true(st, key) ==
    IF key \in DOMAIN st THEN st[key] ELSE JBool(TRUE)

\* state.get(key)
StateGet(st, key) == IF key \in DOMAIN st THEN st[key] ELSE None

AIMessage(content) == [type |-> "ai", content |-> content]
ToolMessage(content, id) ==
    [type |-> "tool", content |-> content, tool_call_id |-> id]

Inc(n) == IF n < MaxCount THEN n + 1 ELSE n

(***************************************************************************)
(* What the collaborators can answer.                                      *)
(***************************************************************************)
Query == "capital of France"

Call(name, params) == <<Id(name), P("(")>> \o params \o <<P(")")>>
Block(body) == <<TOOL_CALL_START>> \o body \o <<TOOL_CALL_END>>
QueriesParam(list) == <<Id("queries"), P("=")>> \o list

SuggestTexts ==
    {<<P("["), Str("capital of France"), P(","), Ws, Str("Paris"), P("]")>>,
     <<Txt("Queries:"), Ws, P("["), Id("capital"), P("]")>>,
     <<P("["), P("]")>>,
     <<Txt("I could not think of any query.")>>,
     <<P("["), IntLit(MaxStrDigits + 1), P("]")>>}

ResearchTexts ==
    {Block(Call("done", <<>>)),
     Block(Call("web_search",
                QueriesParam(<<P("["), Str("capital of France"), P("]")>>))),
     Block(Call("web_search", QueriesParam(<<P("["), Str("q1"), P("]")>>)))
         \o Block(Call("done", <<>>)),
     Block(<<P("[")>>
           \o Call("__reasoning_preamble",
                   <<Id("thought"), P("="), Str("need more")>>)
           \o <<P(","), Ws>>
           \o Call("web_search",
                   QueriesParam(<<P("["), Str("q2"), P("]")>>))
           \o <<P("]")>>),
     Block(<<P("["), P("{"), Str("name"), P(":"), Str("__reasoning_preamble"),
             P(","), Str("arguments"), P(":"), Str("thinking"), P("}"),
             P(","), P("{"), Str("name"), P(":"), Str("done"), P("}"),
             P("]")>>),
     <<Txt("The capital of France is Paris.")>>,
     <<TOOL_CALL_START>> \o Call("web_search",
                                 QueriesParam(<<P("["), Str("q1"), P("]")>>)),
     <<TOOL_CALL_END>> \o Call("done", <<>>) \o <<TOOL_CALL_START>>,
     Block(Call("web_search", QueriesParam(<<Num("3")>>))),
     Block(<<P("[")>>
           \o Call("__reasoning_preamble",
                   <<Id("thought"), P("="), Str("")>>)
           \o <<P(","), Ws>>
           \o Call("__reasoning_preamble",
                   <<Id("thought"), P("="), Str("compare sources")>>)
           \o <<P(","), Ws>>
           \o Call("web_search", QueriesParam(<<Num("3")>>))
           \o <<P("]")>>)}

RespondTexts == {<<Txt("Paris")>>, <<Txt("Lyon")>>}

VerifyTexts ==
    {<<P("{"), Str("passed"), P(":"), Ws, Id("true"), P("}")>>,
     <<P("{"), Str("passed"), P(":"), Ws, Id("false"), P(","), Ws,
       Str("issues"), P(":"), Ws, P("["), Str("no source"), P("]"), P(","),
       Ws, Str("feedback"), P(":"), Ws, Str("cite a source"), P("}")>>,
     <<P("{"), Str("passed"), P(":"), Ws, Id("false"), P("}")>>,
     <<Txt("The response looks accurate.")>>,
     <<P("{"), Id("passed"), P("}")>>,
     <<P("{"), Str("passed"), P(":"), Ws, Id("false"), P(","), Ws,
       Str("issues"), P(":"), Ws, P("["), Num("1"), P("]"), P("}")>>}

\* llm.ainvoke raising instead of returning a text.
LLMError == <<Tok("raise", "llm.ainvoke")>>

\* datetime.now().strftime("%B %d, %Y")
Today == "November 05, 2026"
Dates == {Today, "November 06, 2026"}

HTTPError == [err |-> TRUE, items |-> <<>>]
Payload(items) == [err |-> FALSE, items |-> items]

ItemA == [title |-> "Paris", url |-> "https://a.example/paris",
          content |-> Content("Paris is the capital of France", 30),
          engine |-> "google", score |-> "0.9"]
ItemB == [title |-> "France", content |-> Content("France ...", 301)]

Outcomes == {HTTPError, Payload(<<ItemA>>), Payload(<<ItemB, ItemA>>)}

(***************************************************************************)
(* graph/nodes/suggest_queries.py                                          *)
(***************************************************************************)
\* json.loads on the first [...] of the text.
SuggestDecoded(text) ==
    LET s == FindTok(text, 1, P("["))
        e == IF s = 0 THEN 0 ELSE FindTok(text, s + 1, P("]"))
    IN  IF e = 0 THEN [ok |-> FALSE, v |-> None, err |-> FALSE]
        ELSE json_loads(SubSeq(text, s, e))

\* The queries decoded from the first [...] of the text, else [query].
SuggestedQueries(text, query) ==
    LET r == SuggestDecoded(text)
        queries == IF r.ok THEN r.v ELSE JList(<<>>)
    IN  IF Truthy(queries) THEN queries ELSE JList(<<JStr(query)>>)

\* The messages suggest_queries_node sends to the completion service.
SuggestMessages(st, date) ==
    <<[role |-> "system",
       content |-> Text(<<Txt("You are a search query optimizer."),
                          Txt("Today's date: "), Tok("date", date),
                          Txt("Output ONLY a JSON array of query strings")>>)],
      [role |-> "user", content |-> st.query]>>

suggest_queries_node ==
    /\ node = "suggest_queries"
    /\ request' = SuggestMessages(state, today)
    /\ \E text \in SuggestTexts \cup {LLMError} :
         IF text = LLMError
         THEN /\ node' = "__error__"
              /\ exception' = "llm.ainvoke"
              /\ UNCHANGED <<state, response_text>>
         ELSE IF SuggestDecoded(text).err
         THEN /\ response_text' = text
              /\ node' = "__error__"
              /\ exception' = "json.loads"
              /\ UNCHANGED state
         ELSE LET queries == SuggestedQueries(text, state.query)
                  update ==
                    [suggested_queries |-> queries,
                     pending_tool_calls |->
                         <<ToolCall(JStr("web_search"),
                                    JDict([queries |-> queries]))>>,
                     messages |->
                         <<AIMessage(Text(<<Txt("Suggested search queries: "),
                                            [k |-> "value", s |-> queries]>>))>>]
              IN  /\ response_text' = text
                  /\ state' = ApplyUpdate(state, update)
                  /\ node' = "search"
                  /\ UNCHANGED exception
    /\ UNCHANGED <<transport, searchRuns, respondRuns, verifyRuns,
                   failedChecks, tool_calls, today, sent>>

(***************************************************************************)
(* graph/nodes/search.py                                                   *)
(***************************************************************************)
\* The elements a for loop or list.extend draws from a value; err stands
\* for the TypeError raised on a value that is not iterable.
Iterate(x) ==
    CASE x.t = "list" -> [err |-> FALSE, v |-> x.v]
      [] x.t = "str" ->
           [err |-> FALSE,
            v |-> IF x.v = "" THEN <<>> ELSE <<[t |-> "chars", v |-> x.v]>>]
      [] x.t \in {"raw", "unquoted", "text"} ->
           [err |-> FALSE,
            v |-> IF Len(x.v) = 0 THEN <<>> ELSE <<[t |-> "chars", v |-> x.v]>>]
      [] x.t = "dict" ->
           [err |-> FALSE,
            v |-> IF DOMAIN x.v = {} THEN <<>>
                  ELSE <<[t |-> "keys", v |-> DOMAIN x.v]>>]
      [] OTHER -> [err |-> TRUE, v |-> <<>>]

\* tc.get("arguments", {}).get("queries", []) drawn element by element; err
\* stands for the AttributeError or TypeError the expression raises.
CallQueries(tc) ==
    IF tc.arguments.t # "dict" THEN [err |-> TRUE, v |-> <<>>]
    ELSE Iterate(DictGet(tc.arguments, "queries", JList(<<>>)))

\* FlattenQueries stopping at the first call named web_search.
FlattenQueries_first_call(calls) ==
    LET found == SelectSeq(calls, LAMBDA tc : NameIs(tc, "web_search"))
    IN  IF Len(found) = 0 THEN [err |-> FALSE, v |-> <<>>]
        ELSE CallQueries(found[1])

\* The queries of every call named web_search, concatenated in call order.
RECURSIVE FlattenQueries(_)
FlattenQueries(calls) ==
    IF Len(calls) = 0 THEN [err |-> FALSE, v |-> <<>>]
    ELSE LET rest == FlattenQueries(Tail(calls))
             here == IF NameIs(Head(calls), "web_search")
                     THEN CallQueries(Head(calls))
                     ELSE [err |-> FALSE, v |-> <<>>]
         IN  [err |-> here.err \/ rest.err, v |-> here.v \o rest.v]

\* SearchUpdate granting one more iteration with every search.
SearchUpdate_raise_limit(st, results) ==
    [search_results |-> results,
     messages |-> <<ToolMessage(format_results_for_llm(results),
                                "web_search")>>,
     iteration |-> st.iteration + 1,
     max_iterations |-> st.max_iterations + 1,
     pending_tool_calls |-> <<>>]

\* SearchUpdate without the reset of pending_tool_calls.
SearchUpdate_keep_pending(st, results) ==
    [search_results |-> results,
     messages |-> <<ToolMessage(format_results_for_llm(results),
                                "web_search")>>,
     iteration |-> st.iteration + 1]

\* SearchUpdate without the increment of iteration.
SearchUpdate_same_iteration(st, results) ==
    [search_results |-> results,
     messages |-> <<ToolMessage(format_results_for_llm(results),
                                "web_search")>>,
     iteration |-> st.iteration,
     pending_tool_calls |-> <<>>]

\* The update search_node returns.
SearchUpdate(st, results) ==
    [search_results |-> results,
     messages |-> <<ToolMessage(format_results_for_llm(results),
                                "web_search")>>,
     iteration |-> st.iteration + 1,
     pending_tool_calls |-> <<>>]

search_node ==
    /\ node = "search"
    /\ LET flat == FlattenQueries(state.pending_tool_calls)
           queries == IF Len(flat.v) = 0 THEN <<JStr(state.query)>> ELSE flat.v
       IN  IF flat.err
           THEN /\ node' = "__error__"
                /\ exception' = "search_node"
                /\ UNCHANGED <<state, transport, searchRuns, sent>>
           ELSE \E outcomes \in [1..Requests(queries) -> Outcomes] :
                  LET results == search(outcomes)
                  IN  /\ sent' = SubSeq(queries, 1, Requests(queries))
                      /\ transport' = outcomes
                      /\ state' = ApplyUpdate(state,
                                              SearchUpdate(state, results))
                      /\ searchRuns' = searchRuns + 1
                      /\ node' = "research"
                      /\ UNCHANGED exception
    /\ UNCHANGED <<response_text, respondRuns, verifyRuns, failedChecks,
                   request, tool_calls, today>>

(***************************************************************************)
(* graph/nodes/research.py                                                 *)
(***************************************************************************)
\* The thought of every __reasoning_preamble call, in call order; err
\* stands for the AttributeError raised when arguments has no get.
RECURSIVE ExtractReasoning(_)
ExtractReasoning(calls) ==
    IF Len(calls) = 0 THEN [err |-> FALSE, v |-> <<>>]
    ELSE LET tc == Head(calls)
             rest == ExtractReasoning(Tail(calls))
         IN  IF ~NameIs(tc, "__reasoning_preamble") THEN rest
             ELSE IF tc.arguments.t # "dict" THEN [err |-> TRUE, v |-> <<>>]
             ELSE LET thought == DictGet(tc.arguments, "thought", JStr(""))
                  IN  [err |-> rest.err,
                       v |-> (IF Truthy(thought) THEN <<thought>> ELSE <<>>)
                             \o rest.v]

\* any(tc["name"] == "done" for tc in tool_calls)
IsDone(calls) == \E i \in 1..Len(calls) : NameIs(calls[i], "done")

\* LastIteration one search later: iteration >= max_iterations.
LastIteration_late(st) == st.iteration >= st.max_iterations

\* iteration >= max_iterations - 1
LastIteration(st) == st.iteration >= st.max_iterations - 1

\* SearchCalls without the test of the name: every parsed call.
SearchCalls_unfiltered(calls) == calls


SearchCalls(calls) == SelectSeq(calls, LAMBDA tc : NameIs(tc, "web_search"))

\* The messages research_node sends to the completion service.
ResearchMessages(st, date) ==
    <<[role |-> "system",
       content |-> format_system_prompt(st.mode, st.iteration,
                                        st.max_iterations, date)],
      [role |-> "user", content |-> st.query]>>
    \o (IF Len(st.search_results) > 0
        THEN <<[role |-> "tool",
                content |-> format_results_for_llm(st.search_results),
                tool_call_id |-> "web_search"]>>
        ELSE <<>>)

\* The Command research_node returns for a completion text, given what
\* parse_tool_calls made of it and the reasoning its calls carry; goto is
\* "__error__" when the node raises instead, exception the call that raised.
ResearchDecision(st, text, parsed, reasoning) ==
    LET calls == parsed.v
        search_calls == SearchCalls(calls)
        finish == [update |-> [messages |-> <<AIMessage(Text(text))>>,
                               reasoning |-> st.reasoning \o reasoning.v,
                               is_complete |-> TRUE],
                   goto |-> "respond", exception |-> ""]
        raise == [update |-> <<>>, goto |-> "__error__",
                  exception |-> IF parsed.err THEN "json.loads"
                                ELSE "research_node"]
    IN  IF parsed.err \/ reasoning.err THEN raise
        ELSE IF IsDone(calls) \/ LastIteration(st) THEN finish
        ELSE IF Len(search_calls) > 0
             THEN IF FlattenQueries(search_calls).err THEN raise
                  ELSE [update |-> [messages |-> <<AIMessage(Text(text))>>,
                                    reasoning |-> st.reasoning \o reasoning.v,
                                    pending_tool_calls |-> search_calls],
                        goto |-> "search", exception |-> ""]
        ELSE finish

ResearchParsed(st, text, parsed) ==
    ResearchDecision(st, text, parsed, ExtractReasoning(parsed.v))

ResearchCommand(st, text) == ResearchParsed(st, text, parse_tool_calls(text))

research_node ==
    /\ node = "research"
    /\ request' = ResearchMessages(state, today)
    /\ \E text \in ResearchTexts \cup {LLMError} :
         IF text = LLMError
         THEN /\ node' = "__error__"
              /\ exception' = "llm.ainvoke"
              /\ UNCHANGED <<state, response_text, tool_calls>>
         ELSE \E cmd \in {ResearchCommand(state, text)} :
                  /\ response_text' = text
                  /\ tool_calls' = parse_tool_calls(text).v
                  /\ state' = ApplyUpdate(state, cmd.update)
                  /\ node' = cmd.goto
                  /\ exception' = cmd.exception
    /\ UNCHANGED <<transport, searchRuns, respondRuns, verifyRuns,
                   failedChecks, today, sent>>

(***************************************************************************)
(* graph/nodes/respond.py                                                  *)
(***************************************************************************)
\* RespondUpdate without the response.
RespondUpdate_no_response(text) == [is_complete |-> TRUE]

\* RespondUpdate with an empty response in place of the completion text.
RespondUpdate_empty_response(text) ==
    [response |-> Text(<<>>), is_complete |-> TRUE]

\* RespondUpdate that also appends the answer to messages.
RespondUpdate_with_message(text) ==
    [response |-> Text(text), is_complete |-> TRUE,
     messages |-> <<AIMessage(Text(text))>>]

\* The update respond_node returns.
RespondUpdate(text) == [response |-> Text(text), is_complete |-> TRUE]

\* context or "No search results available."
Context(st) ==
    IF Len(st.search_results) > 0
    THEN format_results_for_llm(st.search_results)
    ELSE Text(<<Txt("No search results available.")>>)

\* The messages respond_node sends to the completion service.
RespondMessages(st) ==
    <<[role |-> "system",
       content |->
         Text(<<Txt("You are a helpful research assistant."),
                Txt("Search Results:"), [k |-> "value", s |-> Context(st)]>>
              \o (IF Len(st.reasoning) > 0
                  THEN <<Txt("Research reasoning:")>>
                       \o [i \in 1..Len(st.reasoning) |->
                              [k |-> "value", s |-> st.reasoning[i]]]
                  ELSE <<>>))],
      [role |-> "user", content |-> st.query]>>

respond_node ==
    /\ node = "respond"
    /\ request' = RespondMessages(state)
    /\ \E text \in RespondTexts \cup {LLMError} :
         IF text = LLMError
         THEN /\ node' = "__error__"
              /\ exception' = "llm.ainvoke"
              /\ UNCHANGED <<state, response_text>>
         ELSE /\ response_text' = text
              /\ state' = ApplyUpdate(state, RespondUpdate(text))
              /\ node' = "verify"
              /\ UNCHANGED exception
    /\ respondRuns' = Inc(respondRuns)
    /\ UNCHANGED <<transport, searchRuns, verifyRuns, failedChecks,
                   tool_calls, today, sent>>

(***************************************************************************)
(* graph/nodes/verify.py                                                   *)
(***************************************************************************)
\* ', '.join(issues): err stands for the TypeError raised when issues is
\* not an iterable of str.
JoinIssues(issues) ==
    LET it == Iterate(issues)
    IN  IF it.err THEN [err |-> TRUE, v |-> <<>>]
        ELSE IF issues.t = "list"
                /\ \E i \in 1..Len(issues.v) : issues.v[i].t # "str"
             THEN [err |-> TRUE, v |-> <<>>]
        ELSE [err |-> FALSE, v |-> it.v]

\* The verdict verify_node reads from the verifier's text: passed, the
\* feedback composed for a failed check, and err when composing it raises.
Verdict(text) ==
    LET s == FindTok(text, 1, P("{"))
        e == IF s = 0 THEN 0 ELSE FindLastTok(text, P("}"))
        r == IF s = 0 \/ e < s THEN [ok |-> FALSE, v |-> None, err |-> FALSE]
             ELSE json_loads(SubSeq(text, s, e))
        pass == [passed |-> TRUE, feedback |-> None, err |-> FALSE]
    IN  IF r.err THEN [passed |-> TRUE, feedback |-> None, err |-> TRUE]
        ELSE IF ~r.ok THEN pass
        ELSE IF Truthy(DictGet(r.v, "passed", JBool(TRUE))) THEN pass
        ELSE LET issues == DictGet(r.v, "issues", JList(<<>>))
                 feedback == DictGet(r.v, "feedback", JStr(""))
                 joined == JoinIssues(issues)
             IN  IF ~Truthy(issues)
                 THEN [passed |-> FALSE, feedback |-> feedback, err |-> FALSE]
                 ELSE [passed |-> FALSE,
                       feedback |-> [t |-> "text",
                                     v |-> <<Txt("Issues: "), joined.v,
                                             Txt(". "), feedback>>],
                       err |-> joined.err]

\* VerifyCommand clearing search_results when the check fails.
VerifyCommand_drop_evidence(text) ==
    LET verdict == Verdict(text)
    IN  IF verdict.err THEN [update |-> <<>>, goto |-> "__error__"]
        ELSE IF verdict.passed
             THEN [update |-> [verification_passed |-> JBool(TRUE),
                               verification_feedback |-> None],
                   goto |-> "__end__"]
        ELSE [update |-> [verification_passed |-> JBool(FALSE),
                          verification_feedback |-> verdict.feedback,
                          search_results |-> <<>>],
              goto |-> "respond"]

\* The Command verify_node returns for the verifier's text.
VerifyCommand(text) ==
    LET verdict == Verdict(text)
    IN  IF verdict.err THEN [update |-> <<>>, goto |-> "__error__"]
        ELSE IF verdict.passed
             THEN [update |-> [verification_passed |-> JBool(TRUE),
                               verification_feedback |-> None],
                   goto |-> "__end__"]
        ELSE [update |-> [verification_passed |-> JBool(FALSE),
                          verification_feedback |-> verdict.feedback],
              goto |-> "respond"]

\* The messages verify_node sends to the completion service.
VerifyMessages(st) ==
    <<[role |-> "system",
       content |->
         Text(<<Txt("You are a fact-checker."),
                Txt("Search Results:"), [k |-> "value", s |-> Context(st)],
                Txt("Response to verify:"),
                [k |-> "value", s |-> StateGet(st, "response")],
                Txt("Output ONLY the JSON, nothing else.")>>)],
      [role |-> "user", content |-> st.query]>>

\* verify_node ending the run at the second failed check, by a count that
\* is kept outside the state.
verify_node_counted ==
    /\ node = "verify"
    /\ IF Truthy(StateGet(state, "verification_passed"))
       THEN /\ node' = "__end__"
            /\ UNCHANGED <<state, response_text, failedChecks, request,
                           exception>>
       ELSE /\ request' = VerifyMessages(state)
            /\ \E text \in VerifyTexts \cup {LLMError} :
                 IF text = LLMError
                 THEN /\ node' = "__error__"
                      /\ exception' = "llm.ainvoke"
                      /\ UNCHANGED <<state, response_text, failedChecks>>
                 ELSE LET cmd == VerifyCommand(text)
                      IN  /\ response_text' = text
                          /\ state' = ApplyUpdate(state, cmd.update)
                          /\ node' = IF cmd.goto = "respond"
                                        /\ failedChecks >= 1
                                     THEN "__end__"
                                     ELSE cmd.goto
                          /\ exception' = IF cmd.goto = "__error__"
                                          THEN "verify_node"
                                          ELSE exception
                          /\ failedChecks' = IF cmd.goto = "respond"
                                             THEN Inc(failedChecks)
                                             ELSE failedChecks
    /\ verifyRuns' = Inc(verifyRuns)
    /\ UNCHANGED <<transport, searchRuns, respondRuns, tool_calls, today,
                   sent>>


verify_node ==
    /\ node = "verify"
    /\ IF Truthy(StateGet(state, "verification_passed"))
       THEN /\ node' = "__end__"
            /\ UNCHANGED <<state, response_text, failedChecks, request,
                           exception>>
       ELSE /\ request' = VerifyMessages(state)
            /\ \E text \in VerifyTexts \cup {LLMError} :
                 IF text = LLMError
                 THEN /\ node' = "__error__"
                      /\ exception' = "llm.ainvoke"
                      /\ UNCHANGED <<state, response_text, failedChecks>>
                 ELSE LET cmd == VerifyCommand(text)
                      IN  /\ response_text' = text
                          /\ state' = ApplyUpdate(state, cmd.update)
                          /\ node' = cmd.goto
                          /\ exception' = IF cmd.goto = "__error__"
                                          THEN "verify_node"
                                          ELSE exception
                          /\ failedChecks' = IF cmd.goto = "respond"
                                             THEN Inc(failedChecks)
                                             ELSE failedChecks
    /\ verifyRuns' = Inc(verifyRuns)
    /\ UNCHANGED <<transport, searchRuns, respondRuns, tool_calls, today,
                   sent>>

(***************************************************************************)
(* main.py: run_search creates the state and invokes the graph.            *)
(***************************************************************************)
\* initial_state with a response already in it.
initial_state_answered(mode, max_iterations) ==
    [query |-> Query,
     messages |-> <<>>,
     search_results |-> <<>>,
     iteration |-> 0,
     max_iterations |-> max_iterations,
     mode |-> mode,
     reasoning |-> <<>>,
     response |-> Text(<<Txt("Paris")>>),
     is_complete |-> FALSE,
     pending_tool_calls |-> <<>>]

initial_state(mode, max_iterations) ==
    [query |-> Query,
     messages |-> <<>>,
     search_results |-> <<>>,
     iteration |-> 0,
     max_iterations |-> max_iterations,
     mode |-> mode,
     reasoning |-> <<>>,
     response |-> None,
     is_complete |-> FALSE,
     pending_tool_calls |-> <<>>]

Init ==
    /\ \E mode \in Modes, max_iterations \in 1..MaxMaxIterations :
         state = initial_state(mode, max_iterations)
    /\ node = "suggest_queries"
    /\ response_text = <<>>
    /\ transport = <<>>
    /\ searchRuns = 0
    /\ respondRuns = 0
    /\ verifyRuns = 0
    /\ failedChecks = 0
    /\ request = <<>>
    /\ tool_calls = <<>>
    /\ today = Today
    /\ exception = ""
    /\ sent = <<>>

Next ==
    \/ suggest_queries_node
    \/ search_node
    \/ research_node
    \/ respond_node
    \/ verify_node

Spec == Init /\ [][Next]_vars

FairSpec == Spec /\ WF_vars(Next)

(***************************************************************************)
(* parse_tool_calls on its own: a caller hands it one text and calls it    *)
(* twice.  The texts are built from the values they spell.                 *)
(***************************************************************************)
SeqsUpTo(S, n) == UNION {[1..k -> S] : k \in 0..n}

ToolNames == {"web_search", "done"}

\* What the arguments member of a JSON call may hold.
JsonArguments ==
    {EmptyDict, JDict([queries |-> JList(<<JStr("q1")>>)]), JStr("thinking"),
     None, JDict([n |-> JInt(1)]), JDict([n |-> JInt(MaxStrDigits + 1)]),
     JDict([queries |-> JList(<<JStr(QuotedCall)>>)])}

\* JSON objects that carry a name, with and without arguments.
JsonCalls ==
    {JDict([name |-> JStr(n)]) : n \in ToolNames}
    \cup {JDict([name |-> JStr(n), arguments |-> a]) :
             n \in ToolNames, a \in JsonArguments}

\* The well-formed JSON contents of a block: one object, or an array of up
\* to MaxElems objects; one of the objects carries no name.
JsonValues ==
    LET elements == JsonCalls \cup {JDict([arguments |-> EmptyDict])}
    IN  elements \cup {JList(q) : q \in SeqsUpTo(elements, MaxElems)}

JsonText(v) == Block(<<Ws>> \o json_dumps(v) \o <<Ws>>)

\* Parameter values as written, each with the value it stands for.
ParamCases ==
    {[text |-> <<Str("x")>>, value |-> JStr("x")],
     [text |-> <<Num("3")>>, value |-> JNum("3")],
     [text |-> <<P("["), Str("q1"), P("]")>>, value |-> JList(<<JStr("q1")>>)],
     [text |-> <<Str("a"), Ws, Str("b")>>,
      value |-> [t |-> "unquoted", v |-> <<Str("a"), Ws, Str("b")>>]],
     [text |-> <<Id("hello")>>, value |-> [t |-> "raw", v |-> <<Id("hello")>>]],
     [text |-> <<IntLit(MaxStrDigits + 1)>>,
      value |-> JInt(MaxStrDigits + 1)]}

\* Call expressions name(key=value, ...) with up to MaxParams parameters.
CallExprs ==
    [name : ToolNames,
     params : SeqsUpTo([key : {"queries", "thought"}, case : ParamCases],
                       MaxParams)]

RECURSIVE ParamsText(_)
ParamsText(params) ==
    IF Len(params) = 0 THEN <<>>
    ELSE <<Id(params[1].key), P("=")>> \o params[1].case.text
         \o (IF Len(params) = 1 THEN <<>>
             ELSE <<P(","), Ws>> \o ParamsText(Tail(params)))

CallText(c) == Call(c.name, ParamsText(c.params))

\* Up to MaxCalls call expressions in one block, as a bracketed list.
RECURSIVE CallsText(_)
CallsText(cs) ==
    IF Len(cs) = 0 THEN <<>>
    ELSE CallText(cs[1])
         \o (IF Len(cs) = 1 THEN <<>>
             ELSE <<P(","), Ws>> \o CallsText(Tail(cs)))

CallLists ==
    SeqsUpTo({c \in CallExprs :
                 \/ Len(c.params) = 0
                 \/ c.params = <<[key |-> "queries",
                                  case |-> [text |-> <<P("["), Str("q1"), P("]")>>,
                                            value |-> JList(<<JStr("q1")>>)]]>>},
             MaxCalls) \ {<<>>}

CallListText(cs) == Block(<<P("[")>> \o CallsText(cs) \o <<P("]")>>)

\* Texts with nothing to recover: empty, no markers, markers unmatched or
\* in the wrong order, blocks that are empty, truncated or not a call.
MalformedTexts ==
    {<<>>,
     <<Txt("The capital of France is Paris.")>>,
     <<TOOL_CALL_START>> \o Call("done", <<>>),
     <<TOOL_CALL_END>> \o Call("done", <<>>) \o <<TOOL_CALL_START>>,
     Block(<<>>),
     Block(<<Txt("hello")>>),
     Block(<<P("["), P("{"), Str("name"), P(":")>>),
     Block(<<P("{"), Id("name"), P("}")>>),
     Block(<<P("["), Num("1"), P(","), Str("done"), P("]")>>),
     Block(<<P("["), IntLit(MaxStrDigits + 1), P("]")>>)}

\* Well-formed JSON without a call in it, whose string spells one.
QuotedTexts == {JsonText(JList(<<JStr(QuotedCall)>>))}

ParserInputs ==
    {JsonText(v) : v \in JsonValues}
    \cup QuotedTexts
    \cup {Block(CallText(c)) : c \in CallExprs}
    \cup {CallListText(cs) : cs \in CallLists}
    \cup MalformedTexts

ParserInit ==
    /\ response_text \in ParserInputs
    /\ node = "parse_tool_calls"
    /\ tool_calls = <<>>
    /\ exception = ""
    /\ state = initial_state("speed", 1)
    /\ request = <<>>
    /\ today = Today
    /\ sent = <<>>
    /\ transport = <<>>
    /\ searchRuns = 0
    /\ respondRuns = 0
    /\ verifyRuns = 0
    /\ failedChecks = 0

\* One call of parse_tool_calls(response_text): it returns the calls or
\* raises.
parse_step ==
    /\ node \in {"parse_tool_calls", "parse_tool_calls_again"}
    /\ LET parsed == parse_tool_calls(response_text)
       IN  /\ tool_calls' = parsed.v
           /\ node' = IF parsed.err THEN "__error__"
                      ELSE IF node = "parse_tool_calls"
                           THEN "parse_tool_calls_again"
                      ELSE "__return__"
           /\ exception' = IF parsed.err THEN "json.loads" ELSE exception
    /\ UNCHANGED <<state, response_text, transport, searchRuns, respondRuns,
                   verifyRuns, failedChecks, request, today, sent>>

ParserNext == parse_step

ParserSpec == ParserInit /\ [][ParserNext]_vars

(***************************************************************************)
(* PromptFormatter.format_system_prompt on its own: a caller builds the    *)
(* prompt twice for one (mode, iteration, max_iterations); the date is     *)
(* what datetime.now() says at each call, and the day may change between   *)
(* the calls.  request keeps, per call, that date and the prompt returned. *)
(***************************************************************************)
PromptInit ==
    /\ \E mode \in Modes, max_iterations \in 1..MaxMaxIterations,
          iteration \in 0..MaxMaxIterations :
         state = [initial_state(mode, max_iterations)
                    EXCEPT !.iteration = iteration]
    /\ today \in Dates
    /\ sent = <<>>
    /\ node = "format_system_prompt"
    /\ request = <<>>
    /\ response_text = <<>>
    /\ tool_calls = <<>>
    /\ exception = ""
    /\ transport = <<>>
    /\ searchRuns = 0
    /\ respondRuns = 0
    /\ verifyRuns = 0
    /\ failedChecks = 0

\* One call of format_system_prompt(iteration, max_iterations).
format_step ==
    /\ node \in {"format_system_prompt", "format_system_prompt_again"}
    /\ request' =
         Append(request,
                [date |-> today,
                 content |-> format_system_prompt(state.mode, state.iteration,
                                                  state.max_iterations,
                                                  today)])
    /\ node' = IF node = "format_system_prompt"
               THEN "format_system_prompt_again"
               ELSE "__return__"
    /\ UNCHANGED <<state, response_text, transport, searchRuns, respondRuns,
                   verifyRuns, failedChecks, tool_calls, today, exception,
                   sent>>

\* The day changes while the caller is between two calls.
midnight ==
    /\ node \in {"format_system_prompt", "format_system_prompt_again"}
    /\ today = Today
    /\ today' \in Dates \ {Today}
    /\ UNCHANGED <<state, node, response_text, transport, searchRuns,
                   respondRuns, verifyRuns, failedChecks, request, tool_calls,
                   exception, sent>>

PromptNext ==
    \/ format_step
    \/ midnight

PromptSpec == PromptInit /\ [][PromptNext]_vars

(***************************************************************************)
(* SearXNGClient.search on its own: a caller passes a list of queries,     *)
(* held in request, some of them longer than the cap; the loop issues one  *)
(* GET at a time and waits for its outcome before the next.  The results   *)
(* returned are left in search_results.                                    *)
(***************************************************************************)
QueryName(i) == JStr("q" \o ToString(i))

QueryLists == {[i \in 1..n |-> QueryName(i)] : n \in 0..(QueryCap + MaxExtra)}

\* A payload with one result more than a query may contribute.
LongPayload == Payload([i \in 1..(MaxResultsPerQuery + 1) |-> ItemA])

ClientOutcomes == {HTTPError, LongPayload}

ClientInit ==
    /\ request \in QueryLists
    /\ node = "client.search"
    /\ sent = <<>>
    /\ transport = <<>>
    /\ state = initial_state("speed", 1)
    /\ response_text = <<>>
    /\ tool_calls = <<>>
    /\ today = Today
    /\ exception = ""
    /\ searchRuns = 0
    /\ respondRuns = 0
    /\ verifyRuns = 0
    /\ failedChecks = 0

\* One turn of the loop over queries[:10]: the GET for the next query and
\* what came of it.
client_get ==
    /\ node = "client.search"
    /\ Len(sent) < Requests(request)
    /\ \E outcome \in ClientOutcomes :
         /\ sent' = Append(sent, request[Len(sent) + 1])
         /\ transport' = Append(transport, outcome)
    /\ UNCHANGED <<state, node, response_text, searchRuns, respondRuns,
                   verifyRuns, failedChecks, request, tool_calls, today,
                   exception>>

\* return results
client_return ==
    /\ node = "client.search"
    /\ Len(sent) = Requests(request)
    /\ state' = [state EXCEPT !.search_results = search(transport)]
    /\ node' = "__return__"
    /\ UNCHANGED <<response_text, transport, searchRuns, respondRuns,
                   verifyRuns, failedChecks, request, tool_calls, today,
                   exception, sent>>

ClientNext ==
    \/ client_get
    \/ client_return

ClientSpec == ClientInit /\ [][ClientNext]_vars

(***************************************************************************)
(* search_node on its own: it is entered with up to MaxCalls pending       *)
(* web_search calls, whose arguments may lack queries, hold none, or       *)
(* repeat a query of another call.                                         *)
(***************************************************************************)
PendingArguments ==
    {EmptyDict,
     JDict([queries |-> JList(<<>>)]),
     JDict([queries |-> JList(<<JStr("q1")>>)]),
     JDict([queries |-> JList(<<JStr("q1"), JStr("q2")>>)])}

PendingLists ==
    SeqsUpTo({ToolCall(JStr("web_search"), a) : a \in PendingArguments},
             MaxCalls)

SearchInit ==
    /\ \E pending \in PendingLists :
         state = [initial_state("speed", 2)
                    EXCEPT !.pending_tool_calls = pending]
    /\ node = "search"
    /\ sent = <<>>
    /\ transport = <<>>
    /\ request = <<>>
    /\ response_text = <<>>
    /\ tool_calls = <<>>
    /\ today = Today
    /\ exception = ""
    /\ searchRuns = 0
    /\ respondRuns = 0
    /\ verifyRuns = 0
    /\ failedChecks = 0

SearchSpec == SearchInit /\ [][search_node]_vars

(***************************************************************************)
(* verify_node on its own: it is called with a state that holds a          *)
(* response, with or without a verification_passed key.                    *)
(***************************************************************************)
\* A state dict with one more key than the channels.
WithKey(st, key, value) ==
    [c \in DOMAIN st \cup {key} |-> IF c = key THEN value ELSE st[c]]

\* The states verify_node is entered with.
VerifyEntryStates ==
    LET answered ==
          {[initial_state(mode, max_iterations)
              EXCEPT !.iteration = 1,
                     !.search_results = results,
                     !.response = Text(text),
                     !.is_complete = TRUE] :
             mode \in Modes, max_iterations \in 1..MaxMaxIterations,
             results \in {<<>>, search(<<Payload(<<ItemA>>)>>)},
             text \in RespondTexts}
    IN  answered
        \cup {WithKey(st, "verification_passed", v) :
                 st \in answered, v \in {JBool(TRUE), JBool(FALSE), None}}

VerifyInit ==
    /\ state \in VerifyEntryStates
    /\ node = "verify"
    /\ request = <<>>
    /\ response_text = <<>>
    /\ tool_calls = <<>>
    /\ today = Today
    /\ exception = ""
    /\ sent = <<>>
    /\ transport = <<>>
    /\ searchRuns = 1
    /\ respondRuns = 1
    /\ verifyRuns = 0
    /\ failedChecks = 0

VerifySpec == VerifyInit /\ [][verify_node]_vars

(***************************************************************************)
(* Properties.                                                             *)
(***************************************************************************)
IsPrefix(a, b) == Len(a) <= Len(b) /\ SubSeq(b, 1, Len(a)) = a

Ended == node = "__end__"
Raised == node = "__error__"

\* C1: whenever research_node parses tool calls that contain a call named
\* done, the next node is respond, is_complete becomes true and
\* pending_tool_calls is left as it was, whatever other calls are present
\* and whatever iteration is.
C1_DonePriority ==
    [][(node = "research" /\ IsDone(parse_tool_calls(response_text').v))
       => /\ node' = "respond"
          /\ state'.is_complete
          /\ state'.pending_tool_calls = state.pending_tool_calls]_vars

\* C2: whenever research_node runs with iteration >= max_iterations - 1 the
\* next node is respond and is_complete becomes true, also when the text
\* holds web_search calls and no done call; the next node is never search.
C2_ForcedFinish ==
    [][(node = "research" /\ LastIteration(state))
       => /\ node' = "respond"
          /\ state'.is_complete]_vars

\* C3: iteration equals the number of executions of search_node so far; it
\* never decreases and no node but search changes it.
C3_IterationCountsSearches ==
    /\ [](state.iteration = searchRuns)
    /\ [][/\ state'.iteration >= state.iteration
          /\ state'.iteration # state.iteration
               => (node = "search" /\ state'.iteration = state.iteration + 1)
        ]_vars

C3_Witness ==
    /\ searchRuns = 2
    /\ state.iteration = 2
    /\ node = "respond"

\* C4: after every execution of search_node the search_results it started
\* from are a prefix of the search_results it leaves.
C4_ResultsAccumulate ==
    [][(node = "search" /\ node' = "research")
       => IsPrefix(state.search_results, state'.search_results)]_vars

\* C5: across every step of a run the messages before the step are a
\* prefix of the messages after it.
C5_MessagesAppendOnly ==
    [][IsPrefix(state.messages, state'.messages)]_vars

C5_Witness ==
    /\ Len(state.messages) = 5
    /\ state.messages[1].type = "ai"
    /\ state.messages[2].type = "tool"
    /\ state.messages[3].type = "ai"
    /\ Ended

\* C6: with every completion call returning, every run eventually ends;
\* verify_node sends the run back to respond only a bounded number of times.
C6_BoundedRetryTermination == <>(Ended \/ Raised)

\* C7: whenever verify_node decodes a verdict whose passed is false, the
\* state afterwards holds verification_passed = false and the feedback
\* composed from issues and feedback, and the next node is respond, however
\* many retries the run already made.
C7_FailedVerificationRetries ==
    [][(node = "verify" /\ ~Verdict(response_text').passed)
       => /\ node' = "respond"
          /\ StateGet(state', "verification_passed") = JBool(FALSE)
          /\ StateGet(state', "verification_feedback")
               = Verdict(response_text').feedback]_vars

\* C8: a run whose verification fails once and then passes executes
\* respond exactly twice and verify exactly twice and ends with
\* verification_passed = true.
C8_ScenarioB ==
    (Ended /\ failedChecks = 1)
    => /\ respondRuns = 2
       /\ verifyRuns = 2
       /\ StateGet(state, "verification_passed") = JBool(TRUE)

\* The texts research_node received so far, in order: the content of every
\* assistant message after the one suggest_queries_node appended.
ResearchReplies ==
    [i \in 1..((Len(state.messages) - 1) \div 2) |->
        state.messages[2 * i + 1].content.v]

\* Mode speed, max_iterations = 3, the first decision text holds exactly
\* one call, a web_search, and the second holds a done call.
ScenarioA ==
    /\ state.mode = "speed"
    /\ state.max_iterations = 3
    /\ Len(ResearchReplies) >= 2
    /\ LET first == parse_tool_calls(ResearchReplies[1]).v
       IN  Len(first) = 1 /\ NameIs(first[1], "web_search")
    /\ IsDone(parse_tool_calls(ResearchReplies[2]).v)

\* C9 as stated: a run of scenario A ends with response set, is_complete
\* true and exactly one execution of search_node (iteration = 1).
C9_ScenarioA_OneSearch ==
    (ScenarioA /\ Ended)
    => /\ state.response # None
       /\ state.is_complete
       /\ searchRuns = 1
       /\ state.iteration = 1

\* C9 amended: a run of scenario A ends with response set, is_complete
\* true and exactly two executions of search_node (iteration = 2): the
\* search that always follows suggest_queries and the one the first
\* decision asked for.
C9_ScenarioA_TwoSearches ==
    (ScenarioA /\ Ended)
    => /\ state.response # None
       /\ state.is_complete
       /\ searchRuns = 2
       /\ state.iteration = 2

C9_Witness ==
    /\ ScenarioA
    /\ Ended
    /\ Len(state.search_results) = 1

\* The results of the requests that did not fail, in request order.
RECURSIVE KeptResults(_)
KeptResults(outcomes) ==
    IF Len(outcomes) = 0 THEN <<>>
    ELSE LET rest == KeptResults(Tail(outcomes))
             first == Head(outcomes)
         IN  IF first.err THEN rest
             ELSE [i \in 1..Min(Len(first.items), MaxResultsPerQuery) |->
                      SearchResult(first.items[i])] \o rest

AllFailed(outcomes) ==
    Len(outcomes) > 0 /\ \A i \in 1..Len(outcomes) : outcomes[i].err

\* C10: an execution of search_node never ends the run, whatever requests
\* fail at the transport: it increments iteration, goes on to research and
\* leaves as search_results the results of the requests that did not fail,
\* in request order (none when all failed); and a run that ends has its
\* response set.
C10_TransportFailuresTolerated ==
    /\ [][node = "search"
          => /\ node' = "research"
             /\ state'.iteration = state.iteration + 1
             /\ state'.search_results = KeptResults(transport')
             /\ AllFailed(transport') => state'.search_results = <<>>]_vars
    /\ [](Ended => state.response # None)

\* A run that ended after two searches in which every request failed.
C10_Witness ==
    /\ Ended
    /\ AllFailed(transport)
    /\ state.search_results = <<>>
    /\ state.iteration = 2
    /\ state.messages[2].content = format_results_for_llm(<<>>)
    /\ state.messages[4].content = format_results_for_llm(<<>>)
    /\ state.response # None

\* The step is an execution of verify_node whose completion call returned.
VerifyReturned == node = "verify" /\ exception' # "llm.ainvoke"

\* C11: whenever verify_node reads a passing verdict from the verifier's
\* text (no {...} in it, a {...} that does not decode, or a decoded object
\* whose passed is true or absent), the state afterwards holds
\* verification_passed = true and no verification_feedback, the run ends
\* and respond is not executed again.
C11_FailOpenPass ==
    [][(VerifyReturned /\ Verdict(response_text').passed
                       /\ ~Verdict(response_text').err)
       => /\ node' = "__end__"
          /\ respondRuns' = respondRuns
          /\ StateGet(state', "verification_passed") = JBool(TRUE)
          /\ StateGet(state', "verification_feedback") = None]_vars

\* The system message of a request interpolates the value x.
Mentions(messages, x) ==
    /\ Len(messages) > 0
    /\ \E j \in 1..Len(messages[1].content.v) :
         messages[1].content.v[j] = [k |-> "value", s |-> x]

\* The step is an execution of respond_node that follows a failed check;
\* response_text still holds the verifier's text.
RespondRetry == node = "respond" /\ failedChecks > 0

\* C12: whenever respond_node runs after a verification that failed with a
\* feedback text, the messages it sends to the completion service contain
\* that feedback text.
C12_RetryUsesFeedback ==
    [][(RespondRetry /\ Truthy(Verdict(response_text).feedback))
       => Mentions(request', Verdict(response_text).feedback)]_vars

\* The step is a completion call that raised.
CompletionFailed == exception = "" /\ exception' = "llm.ainvoke"

\* C13: a completion call that fails leaves the state as it was and aborts
\* the run; no node runs in an aborted run; and a run is over either at
\* __end__ with a response or aborted by a failed completion call.
C13_CompletionFailuresAbort ==
    /\ [][CompletionFailed => (state' = state /\ node' = "__error__")]_vars
    /\ [][~Raised]_vars
    /\ [](Ended => state.response # None)
    /\ [](Raised => exception = "llm.ainvoke")

\* C14: a run that has reached __end__ has is_complete true and a response;
\* and at no point of a run is is_complete false while response is set.
C14_TerminalConsistency ==
    /\ Ended => (state.is_complete /\ state.response # None)
    /\ ~(~state.is_complete /\ state.response # None)

\* A run that ended after one failed check and a second respond.
C14_Witness ==
    /\ Ended
    /\ failedChecks = 1
    /\ respondRuns = 2
    /\ state.is_complete
    /\ state.response = Text(<<Txt("Lyon")>>)

\* C15: pending_tool_calls changes only in steps of suggest_queries_node,
\* research_node and search_node; the first two write it only on the way to
\* search_node, which therefore always starts from calls the step before
\* wrote; and every execution of search_node leaves it empty.
C15_PendingWriteOnceThenDrain ==
    [][/\ state'.pending_tool_calls # state.pending_tool_calls
            => \/ node = "search"
               \/ node \in {"suggest_queries", "research"} /\ node' = "search"
       /\ node' = "search"
            => /\ state.pending_tool_calls = <<>>
               /\ state'.pending_tool_calls # <<>>
       /\ node = "search" => state'.pending_tool_calls = <<>>]_vars

\* After the second search of a run: the calls research_node wrote have
\* been consumed and the queue is empty again.
C15_Witness ==
    /\ node = "research"
    /\ searchRuns = 2
    /\ state.pending_tool_calls = <<>>
    /\ Len(tool_calls) > 0
    /\ NameIs(tool_calls[Len(tool_calls)], "web_search")

\* The step is the caller's first call of parse_tool_calls.
FirstParse == node = "parse_tool_calls"

\* The objects of a JSON block value, and the calls they spell.
JsonItems(v) == IF v.t = "list" THEN v.v ELSE <<v>>

ExpectedJsonCalls(v) ==
    [i \in 1..Len(JsonItems(v)) |->
        LET item == JsonItems(v)[i].v
        IN  ToolCall(item.name,
                     IF "arguments" \in DOMAIN item THEN item.arguments
                     ELSE EmptyDict)]

\* C16: for every block whose trimmed content is well-formed JSON, an
\* object or an array of objects that each carry a name, parse_tool_calls
\* returns one call per object, in order, with the object's name and with
\* its arguments, or the empty mapping when it has none.
C16_JsonBlocks ==
    [][\A v \in JsonValues :
         (/\ FirstParse
          /\ response_text = JsonText(v)
          /\ \A i \in 1..Len(JsonItems(v)) :
                "name" \in DOMAIN JsonItems(v)[i].v)
         => /\ node' # "__error__"
            /\ tool_calls' = ExpectedJsonCalls(v)]_vars

\* C17: parse_tool_calls returns for every text, and returns no call for a
\* text that is empty, has no complete pair of markers, or whose block is
\* empty, truncated, invalid or not a call.
C17_ParseNeverRaises ==
    [][/\ node' # "__error__"
       /\ response_text \in MalformedTexts => tool_calls' = <<>>]_vars

\* The arguments a parameter list spells; a repeated key keeps the value
\* written last.
RECURSIVE ExpectedArguments(_)
ExpectedArguments(params) ==
    IF Len(params) = 0 THEN <<>>
    ELSE LET last == params[Len(params)]
         IN  (last.key :> last.case.value)
             @@ ExpectedArguments(SubSeq(params, 1, Len(params) - 1))

ExpectedCall(c) == ToolCall(JStr(c.name), JDict(ExpectedArguments(c.params)))

\* C18: for every block made of call expressions name(key=value, ...)
\* whose values hold no comma and no parenthesis, parse_tool_calls returns
\* one call per expression, with its name and with every key mapped to its
\* value decoded as JSON, else unquoted, else raw; and a second call on the
\* same text returns the same calls.
C18_CallExpressionBlocks ==
    [][/\ \A c \in CallExprs :
            (FirstParse /\ response_text = Block(CallText(c)))
            => /\ node' # "__error__"
               /\ tool_calls' = <<ExpectedCall(c)>>
       /\ \A cs \in CallLists :
            (FirstParse /\ response_text = CallListText(cs))
            => /\ node' # "__error__"
               /\ tool_calls' = [i \in 1..Len(cs) |-> ExpectedCall(cs[i])]
       /\ node = "parse_tool_calls_again"
            => (node' = "__return__" /\ tool_calls' = tool_calls)]_vars

\* The names of the tools in the catalogue a prompt embeds between its
\* tool-list markers, read back as JSON.
CatalogueNames(prompt) ==
    LET s == FindTok(prompt, 1, TOOL_LIST_START)
        e == FindTok(prompt, s + 1, TOOL_LIST_END)
        inside == SelectSeq(SubSeq(prompt, s + 1, e - 1),
                            LAMBDA tk : tk.k # "txt")
        decoded == json_loads(inside)
    IN  IF s = 0 \/ e = 0 \/ ~decoded.ok \/ decoded.v.t # "list" THEN {}
        ELSE {decoded.v.v[i].v.name.v : i \in 1..Len(decoded.v.v)}

\* C19: for every mode, iteration, max_iterations and date, the system
\* prompt holds both tool-call markers, and holds them so that the parser's
\* own scan finds the pair; the catalogue it embeds lists
\* __reasoning_preamble exactly when the mode is balanced or quality, and
\* always lists web_search and done; two calls made on the same date return
\* the same prompt.
C19_SystemPromptShape ==
    \A i \in 1..Len(request) :
        LET prompt == request[i].content.v
            names == CatalogueNames(prompt)
        IN  /\ FindTok(prompt, 1, TOOL_CALL_START) # 0
            /\ FindTok(prompt, 1, TOOL_CALL_END) # 0
            /\ Len(Blocks(prompt, 1, <<>>)) = 1
            /\ ("__reasoning_preamble" \in names)
                  <=> (state.mode \in {"balanced", "quality"})
            /\ {"web_search", "done"} \subseteq names
            /\ \A j \in 1..Len(request) :
                   request[j].date = request[i].date
                     => request[j].content = request[i].content

\* Both calls were made on one date, in a mode whose catalogue lists the
\* reasoning tool.
C19_Witness ==
    /\ node = "__return__"
    /\ Len(request) = 2
    /\ request[1].date = request[2].date
    /\ state.mode = "quality"
    /\ state.iteration = 1
    /\ "__reasoning_preamble" \in CatalogueNames(request[2].content.v)

\* No start marker of the text is followed, anywhere later, by an end marker.
NoCompletePair(toks) ==
    ~\E i, j \in 1..Len(toks) :
        /\ i < j
        /\ toks[i] = TOOL_CALL_START
        /\ toks[j] = TOOL_CALL_END

\* C20: when the text the decision-stage completion returns holds no start
\* marker followed by an end marker, the parser finds no call in it, whatever
\* call expressions it spells, and research_node goes to respond with
\* is_complete = TRUE and pending_tool_calls as it was, that is, empty.
C20_NoPairImplicitFinish ==
    [][(/\ node = "research"
        /\ exception' # "llm.ainvoke"
        /\ NoCompletePair(response_text'))
         => /\ tool_calls' = <<>>
            /\ parse_tool_calls(response_text') = [err |-> FALSE, v |-> <<>>]
            /\ node' = "respond"
            /\ state'.is_complete = TRUE
            /\ state'.pending_tool_calls = state.pending_tool_calls
            /\ state'.pending_tool_calls = <<>>]_vars

\* The research stage has just finished on a text that spells a web_search
\* call after a start marker that is never closed, with iterations to spare.
C20_Witness ==
    /\ node = "respond"
    /\ respondRuns = 0
    /\ ~LastIteration(state)
    /\ NoCompletePair(response_text)
    /\ FindTok(response_text, 1, TOOL_CALL_START) # 0
    /\ FindTok(response_text, 1, Id("web_search")) # 0
    /\ state.is_complete
    /\ state.pending_tool_calls = <<>>

\* C21: one call of the search collaborator requests the first ten queries
\* of its list and no other, in list order and one request at a time, and
\* returns at most ten times max_results_per_query results.
C21_QueryCap ==
    /\ [](/\ Len(sent) <= QueryCap
          /\ IsPrefix(sent, request)
          /\ Len(transport) = Len(sent)
          /\ node = "__return__" =>
                /\ Len(sent) = Min(Len(request), QueryCap)
                /\ Len(state.search_results)
                     <= QueryCap * MaxResultsPerQuery)
    /\ [][Len(sent') <= Len(sent) + 1]_vars

\* The list held more than ten queries, every request was answered with
\* more results than one query may contribute, and the call has returned.
C21_Witness ==
    /\ node = "__return__"
    /\ Len(request) > QueryCap
    /\ Len(sent) = QueryCap
    /\ \A i \in 1..Len(transport) : transport[i] = LongPayload
    /\ Len(state.search_results) = QueryCap * MaxResultsPerQuery

\* The stages of the graph and the edges a run may take between them.
Stages == {"suggest_queries", "search", "research", "respond", "verify"}

StageEdges ==
    {<<"suggest_queries", "search">>, <<"search", "research">>,
     <<"research", "search">>, <<"research", "respond">>,
     <<"respond", "verify">>, <<"verify", "respond">>,
     <<"verify", "__end__">>}

\* The order of the stages, as far as a run has got.
StageOrder ==
    /\ node = "suggest_queries"
    /\ [](node \in Stages \cup {"__end__", "__error__"})
    /\ [][node' \notin {node, "__error__"}
            => <<node, node'>> \in StageEdges]_vars
    /\ [](node \in {"research", "respond", "verify", "__end__"}
            => searchRuns >= 1)
    /\ [](node \in {"verify", "__end__"} => respondRuns >= 1)
    /\ [](Ended => verifyRuns >= 1)

\* C22: a run starts with suggest_queries, then alternates search and
\* research at least once, search first, then respond and verify at least
\* once, respond first, and then ends; research is entered only from search,
\* search only from suggest_queries or research, respond only from research
\* or verify, verify only from respond, the end only from verify; one node
\* runs at a time.
C22_StageOrderToTheEnd == StageOrder /\ <>(Ended \/ Raised)

\* The calls named web_search among calls, in their order.
WebSearchCalls(calls) ==
    SelectSeq(calls, LAMBDA tc : tc.name = JStr("web_search"))

\* The research step parsed calls without a done call, among them a
\* web_search call, with an iteration to spare.
SearchLoopCase ==
    /\ node = "research"
    /\ exception' # "llm.ainvoke"
    /\ tool_calls' = parse_tool_calls(response_text').v
    /\ ~\E i \in 1..Len(tool_calls') : tool_calls'[i].name = JStr("done")
    /\ state.iteration < state.max_iterations - 1
    /\ Len(WebSearchCalls(tool_calls')) > 0

\* C23: when research_node parses calls with no done call among them and at
\* least one web_search call, and iteration < max_iterations - 1, then
\* pending_tool_calls becomes the web_search calls in parse order and
\* nothing else, the next node is search and is_complete stays false.
C23_SearchLoopBranch ==
    [][SearchLoopCase
         => /\ state'.pending_tool_calls = WebSearchCalls(tool_calls')
            /\ node' = "search"
            /\ state'.is_complete = FALSE
            /\ state.is_complete = FALSE]_vars

\* The step is an execution of research_node whose completion call returned.
ResearchRan == node = "research" /\ exception' # "llm.ainvoke"

\* C24: every execution of research_node appends one message to messages,
\* an assistant message whose content is the text the completion returned,
\* whichever way it routes.
C24_OneAssistantMessage ==
    [][ResearchRan
         => state'.messages
              = Append(state.messages,
                       [type |-> "ai", content |-> Text(response_text')])]_vars

\* The thought argument of every __reasoning_preamble call that has one,
\* in the order of the calls.
Thoughts(calls) ==
    LET thinking ==
          SelectSeq(calls,
                    LAMBDA tc : /\ tc.name = JStr("__reasoning_preamble")
                                /\ tc.arguments.t = "dict"
                                /\ "thought" \in DOMAIN tc.arguments.v)
    IN  [i \in 1..Len(thinking) |-> thinking[i].arguments.v.thought]

\* C25: every execution of research_node appends to reasoning the thought
\* of every __reasoning_preamble call it parsed, in parse order, whichever
\* way it routes; reasoning only ever grows at its end, and no other node
\* changes it.
C25_ReasoningExtraction ==
    /\ [][ResearchRan
            => state'.reasoning = state.reasoning \o Thoughts(tool_calls')]_vars
    /\ [][IsPrefix(state.reasoning, state'.reasoning)]_vars
    /\ [][node # "research" => state'.reasoning = state.reasoning]_vars

\* The text between the first [ of a text and the first ] after it, both
\* included; <<>> when there is none.
FirstBracketed(text) ==
    IF \E i, j \in 1..Len(text) : i < j /\ text[i] = P("[") /\ text[j] = P("]")
    THEN LET i == CHOOSE a \in 1..Len(text) :
                    /\ text[a] = P("[")
                    /\ \A b \in 1..(a - 1) : text[b] # P("[")
             j == CHOOSE a \in (i + 1)..Len(text) :
                    /\ text[a] = P("]")
                    /\ \A b \in (i + 1)..(a - 1) : text[b] # P("]")
         IN  SubSeq(text, i, j)
    ELSE <<>>

\* The queries the claim expects of a completion text: the array its first
\* [...] decodes to, and [query] when there is no [...], when it is not
\* JSON or when the array is empty.
ExpectedSuggestion(text, query) ==
    LET decoded == json_loads(FirstBracketed(text))
    IN  IF FirstBracketed(text) # <<>> /\ decoded.ok /\ decoded.v.t = "list"
            /\ Len(decoded.v.v) > 0
        THEN decoded.v
        ELSE JList(<<JStr(query)>>)

\* C26: every execution of suggest_queries_node leaves in
\* pending_tool_calls exactly one web_search call whose queries are the
\* array decoded from the first [...] of the completion text, or [query]
\* when there is none, when decoding fails or when the array is empty;
\* it appends exactly one assistant message, and the next node is search.
C26_SuggestionFallback ==
    [][(node = "suggest_queries" /\ exception' # "llm.ainvoke")
         => /\ state'.pending_tool_calls
                 = <<[name |-> JStr("web_search"),
                      arguments |->
                        JDict([queries |->
                                 ExpectedSuggestion(response_text',
                                                    state.query)])]>>
            /\ Len(state'.messages) = Len(state.messages) + 1
            /\ IsPrefix(state.messages, state'.messages)
            /\ state'.messages[Len(state'.messages)].type = "ai"
            /\ node' = "search"]_vars

\* The queries arguments of the calls named web_search, one after the
\* other, a call without queries contributing nothing.
RECURSIVE ConcatQueries(_)
ConcatQueries(calls) ==
    IF Len(calls) = 0 THEN <<>>
    ELSE (IF /\ calls[1].name = JStr("web_search")
             /\ "queries" \in DOMAIN calls[1].arguments.v
          THEN calls[1].arguments.v.queries.v
          ELSE <<>>)
         \o ConcatQueries(Tail(calls))

\* C27: the queries search_node hands to the search collaborator are the
\* queries arguments of the pending web_search calls, concatenated in
\* order with repetitions kept, and the single query of the run when that
\* concatenation is empty; the collaborator requests them (the first ten)
\* in that order.
C27_QuerySelection ==
    [][node = "search"
         => LET flat == ConcatQueries(state.pending_tool_calls)
                queries == IF flat = <<>> THEN <<JStr(state.query)>> ELSE flat
            IN  /\ node' = "research"
                /\ sent' = SubSeq(queries, 1, Min(Len(queries), QueryCap))]_vars

\* Two pending calls shared a query and it was requested twice.
C27_Witness ==
    /\ node = "research"
    /\ searchRuns = 1
    /\ sent = <<JStr("q1"), JStr("q2"), JStr("q1")>>

\* C28: every execution of respond_node makes one completion call, sets
\* response to the text it returned, replacing the response of an earlier
\* execution, and is_complete to TRUE, changes no other channel, and hands
\* over to verify.
C28_RespondThenVerify ==
    [][(node = "respond" /\ exception' # "llm.ainvoke")
         => /\ request' = RespondMessages(state)
            /\ state'.response = Text(response_text')
            /\ state'.is_complete = TRUE
            /\ \A c \in Channels \ {"response", "is_complete"} :
                   state'[c] = state[c]
            /\ node' = "verify"]_vars

\* A second execution of respond_node has replaced the response of the
\* first, which failed its check.
C28_Witness ==
    /\ node = "verify"
    /\ respondRuns = 2
    /\ failedChecks = 1
    /\ response_text = <<Txt("Lyon")>>
    /\ state.response = Text(<<Txt("Lyon")>>)

\* C29: when verify_node is entered with verification_passed true it ends
\* the run at once: it makes no completion call and changes no field of
\* the state.
C29_VerifyShortCircuit ==
    [][(/\ node = "verify"
        /\ "verification_passed" \in DOMAIN state
        /\ state["verification_passed"] = JBool(TRUE))
         => /\ node' = "__end__"
            /\ request' = request
            /\ response_text' = response_text
            /\ state' = state
            /\ exception' = exception]_vars

\* verify_node was entered with verification_passed true and the run is
\* over without any completion call.
C29_Witness ==
    /\ node = "__end__"
    /\ verifyRuns = 1
    /\ "verification_passed" \in DOMAIN state
    /\ state["verification_passed"] = JBool(TRUE)
    /\ request = <<>>
    /\ response_text = <<>>

\* C30: query, mode and max_iterations keep the values run_search gave
\* them: no step of any node changes them, and query is the query of the
\* run in every state.
C30_ImmutableInputs ==
    /\ [](state.query = Query)
    /\ [][/\ state'.query = state.query
          /\ state'.mode = state.mode
          /\ state'.max_iterations = state.max_iterations]_vars

\* A run in quality mode with the largest budget has ended after every
\* node ran, search and respond more than once.
C30_Witness ==
    /\ Ended
    /\ searchRuns >= 2
    /\ respondRuns >= 2
    /\ state.query = Query
    /\ state.mode = "quality"
    /\ state.max_iterations = MaxMaxIterations

\* C31: every call parse_tool_calls returns has a string for name and a
\* mapping for arguments; a JSON element whose arguments is not a mapping,
\* or whose name is not a string, is not among the calls returned.
C31_WellTypedCalls ==
    \A i \in 1..Len(tool_calls) :
        /\ tool_calls[i].name.t = "str"
        /\ tool_calls[i].arguments.t = "dict"

\* max(1, max_iterations - 1)
IterationBound ==
    IF state.max_iterations - 1 > 1 THEN state.max_iterations - 1 ELSE 1

\* C32: iteration never exceeds max(1, max_iterations - 1) and never reaches
\* max_iterations when max_iterations >= 2; search_node runs at most that
\* many times, and research_node runs once per value of iteration from 1 to
\* that bound at most; with max_iterations 1 or 2 a run that is past
\* search_node has searched exactly once and research_node never goes to
\* search_node, whatever the model requested.
C32_IterationBound ==
    /\ [](/\ state.iteration <= IterationBound
          /\ searchRuns <= IterationBound
          /\ state.max_iterations >= 2
               => state.iteration < state.max_iterations
          /\ (state.max_iterations \in {1, 2}
              /\ node \in {"research", "respond", "verify", "__end__"})
               => searchRuns = 1)
    /\ [][node = "research"
            => /\ state.iteration \in 1..IterationBound
               /\ node' = "search" => state'.iteration < IterationBound
               /\ state.max_iterations \in {1, 2} => node' # "search"]_vars

\* With max_iterations = 2 the model asked for another search after the
\* only one and the run went on to respond.
C32_Witness ==
    /\ state.max_iterations = 2
    /\ node = "respond"
    /\ state.iteration = 1
    /\ searchRuns = 1
    /\ Len(WebSearchCalls(tool_calls)) > 0

\* C33: verify_node is never entered with a true verification_passed: the
\* only Command that writes true goes to the end; so every execution of
\* verify_node makes its completion call.
C33_ShortCircuitUnreachable ==
    /\ [](node = "verify"
            => ~Truthy(StateGet(state, "verification_passed")))
    /\ [][node = "verify"
            => /\ request' = VerifyMessages(state)
               /\ (/\ exception' # "llm.ainvoke"
                   /\ "verification_passed"
                        \in DOMAIN VerifyCommand(response_text').update
                   /\ VerifyCommand(response_text').update
                        ["verification_passed"] = JBool(TRUE))
                    => node' = "__end__"]_vars

\* verify_node is entered again, after a failed check and a new response.
C33_Witness ==
    /\ node = "verify"
    /\ verifyRuns >= 1
    /\ failedChecks >= 1

\* C34: when search_node is entered pending_tool_calls is not empty and
\* holds only calls named web_search; when research_node, respond_node or
\* verify_node is entered, and at the end, pending_tool_calls is empty.
C34_QueuePerStage ==
    /\ node = "search"
         => /\ Len(state.pending_tool_calls) > 0
            /\ \A i \in 1..Len(state.pending_tool_calls) :
                 state.pending_tool_calls[i].name = JStr("web_search")
    /\ node \in {"research", "respond", "verify", "__end__"}
         => state.pending_tool_calls = <<>>

\* search_node is entered from research_node, which parsed calls of other
\* names besides the web_search call it passed on.
C34_Witness ==
    /\ node = "search"
    /\ searchRuns >= 1
    /\ Len(tool_calls) > Len(state.pending_tool_calls)

\* The roles of a transcript: assistant first, then tool and assistant in
\* turn.
TranscriptRoles(messages) ==
    \A i \in 1..Len(messages) :
        messages[i].type = IF i % 2 = 1 THEN "ai" ELSE "tool"

AnswerKeys ==
    {"response", "is_complete", "verification_passed",
     "verification_feedback"}

\* C36: no execution of respond_node or verify_node changes iteration,
\* search_results, messages, reasoning or pending_tool_calls: between the
\* first respond and the end only response, is_complete, verification_passed
\* and verification_feedback can change, and every retry puts the same
\* search results into its request.
C36_RespondVerifyFrame ==
    [][(node = "respond" \/ node = "verify")
         => /\ DOMAIN state' \ AnswerKeys = DOMAIN state \ AnswerKeys
            /\ \A key \in DOMAIN state \ AnswerKeys :
                 state'[key] = state[key]
            /\ Context(state') = Context(state)]_vars

\* respond_node is entered again after a failed check, with search results
\* in the state.
C36_Witness ==
    /\ node = "respond"
    /\ respondRuns >= 1
    /\ failedChecks >= 1
    /\ Len(state.search_results) > 0
    /\ Len(state.reasoning) > 0

\* What a node returns as a function of the state it is entered with and of
\* what its collaborator answered: the completion text for the nodes that
\* call the completion service, the outcomes of the requests for
\* search_node.  The result is the state after the update and the next node.
Transition(st, nd, text, outcomes) ==
    CASE nd = "suggest_queries" ->
           IF SuggestDecoded(text).err
           THEN [state |-> st, node |-> "__error__"]
           ELSE LET queries == SuggestedQueries(text, st.query)
                IN  [state |->
                       ApplyUpdate(st,
                         [suggested_queries |-> queries,
                          pending_tool_calls |->
                            <<ToolCall(JStr("web_search"),
                                       JDict([queries |-> queries]))>>,
                          messages |->
                            <<AIMessage(Text(<<Txt("Suggested search queries: "),
                                               [k |-> "value",
                                                s |-> queries]>>))>>]),
                     node |-> "search"]
      [] nd = "search" ->
           IF FlattenQueries(st.pending_tool_calls).err
           THEN [state |-> st, node |-> "__error__"]
           ELSE [state |-> ApplyUpdate(st, SearchUpdate(st, search(outcomes))),
                 node |-> "research"]
      [] nd = "research" ->
           [state |-> ApplyUpdate(st, ResearchCommand(st, text).update),
            node |-> ResearchCommand(st, text).goto]
      [] nd = "respond" ->
           [state |-> ApplyUpdate(st, RespondUpdate(text)), node |-> "verify"]
      [] nd = "verify" ->
           IF Truthy(StateGet(st, "verification_passed"))
           THEN [state |-> st, node |-> "__end__"]
           ELSE [state |-> ApplyUpdate(st, VerifyCommand(text).update),
                 node |-> VerifyCommand(text).goto]

\* C37: the state a node leaves behind and the node that runs next are a
\* function of the state the node was entered with and of the text or the
\* search outcomes it received, and of nothing else; so two runs that start
\* from the same state and receive the same texts and outcomes go through
\* the same nodes and end in the same state.
C37_OrchestrationDeterminism ==
    [][IF CompletionFailed
       THEN state' = state /\ node' = "__error__"
       ELSE /\ state' = Transition(state, node, response_text',
                                   transport').state
            /\ node' = Transition(state, node, response_text',
                                  transport').node]_vars

\* A run that ended after two searches, two responses and two checks.
C37_Witness ==
    /\ node = "__end__"
    /\ searchRuns = 2
    /\ respondRuns = 2
    /\ verifyRuns = 2
    /\ Len(state.reasoning) > 0

\* The calls of one block when exactly one grammar contributes: those of
\* the JSON grammar when the block starts with { or [ and JSON yields a
\* call, else those of the call-expression grammar.
ExclusiveCalls(block) ==
    LET match == Strip(block)
        json == IF Len(match) > 0 /\ match[1] \in {P("{"), P("[")}
                THEN _parse_json_tool_calls(match).v
                ELSE <<>>
    IN  IF Len(json) > 0 THEN json
        ELSE _parse_pythonic_tool_calls(match).v

RECURSIVE ExclusiveBlocksCalls(_)
ExclusiveBlocksCalls(blocks) ==
    IF Len(blocks) = 0 THEN <<>>
    ELSE ExclusiveCalls(Head(blocks)) \o ExclusiveBlocksCalls(Tail(blocks))

\* C38: for every block exactly one grammar contributes calls: when the
\* block starts with { or [ and JSON decoding yields at least one call the
\* result holds those calls and none of the call-expression grammar; the
\* call-expression grammar contributes only when the block starts with
\* neither, JSON decoding fails or JSON decoding yields no call; no call is
\* returned twice for one block.
C38_GrammarExclusivity ==
    [][(node = "parse_tool_calls" /\ node' # "__error__")
         => tool_calls'
              = ExclusiveBlocksCalls(Blocks(response_text, 1, <<>>))]_vars

\* A parsed block of JSON with one call in it, whose text also matches the
\* call-expression pattern: the JSON call alone was returned.
C38_Witness ==
    /\ node = "parse_tool_calls_again"
    /\ Len(Blocks(response_text, 1, <<>>)) = 1
    /\ Len(_parse_pythonic_tool_calls(Blocks(response_text, 1, <<>>)[1]).v) = 1
    /\ Len(tool_calls) = 1
    /\ tool_calls[1].name = JStr("web_search")

====
